---- MODULE Spec2Model ----
(***************************************************************************)
(* SEM Planner API: the keyword pipeline of keyword_service.py and the    *)
(* endpoint and budget calculator of main.py.                              *)
(*                                                                         *)
(* Texts are TLA+ strings, handled character by character (Len, SubSeq,   *)
(* \o).  Money is counted in cents: a Python float with two decimals,     *)
(* such as cpc_low = 0.5, is the integer 50.                                *)
(***************************************************************************)
EXTENDS Integers, Sequences, FiniteSets, TLC

VARIABLES
    service,    \* keyword_service: the process-wide KeywordPlannerService
    pc,         \* per request: where its coroutine stands
    request,    \* per request: the SEMAnalysisRequest body
    fetched,    \* per request: the page-fetch outcomes it has seen, in order
    seed_keywords,  \* per request: discover_keywords' local seed list
    keyword_ideas,  \* per request: discover_keywords' local idea list
    keyword_data,   \* per request: what discover_keywords returned
    raised,     \* per request: the exception injected into it, or NoException
    response,   \* per request: the HTTP response
    call        \* a direct call of one of the pure functions, and its result

vars == <<service, pc, request, fetched, seed_keywords, keyword_ideas,
          keyword_data, raised, response, call>>

----------------------------------------------------------------------------
(* Bounds of the model *)

\* Requests that may be in flight together.
MaxRequests == 2
\* Longest keyword list handed directly to group_keywords_into_ad_groups.
MaxGroupList == 2
\* Longest keyword list handed directly to calculate_cpc_recommendations.
MaxCpcList == 2
\* Longest seed list handed directly to get_keyword_ideas_from_google.
MaxSeedList == 11

----------------------------------------------------------------------------
(* Python text operations *)

Char(s, i) == SubSeq(s, i, i)

Whitespace == {" ", "\t", "\n"}

UpperCase == "ABCDEFGHIJKLMNOPQRSTUVWXYZ"

LowerCase == "abcdefghijklmnopqrstuvwxyz"

Digits == "0123456789"

CharsOf(s) == {Char(s, i) : i \in 1..Len(s)}

UpperChars == CharsOf(UpperCase)

AsciiLetters == UpperChars \cup CharsOf(LowerCase)

\* \w of the re module, over the characters the model's texts use.
WordChars == AsciiLetters \cup CharsOf(Digits) \cup {"_"}

LowerChar(c) ==
    IF c \in UpperChars
    THEN Char(LowerCase, CHOOSE i \in 1..Len(UpperCase) : Char(UpperCase, i) = c)
    ELSE c

\* Recursions over a text or a list halve their range, so that their depth
\* stays logarithmic in its length.
RECURSIVE LowerRange(_, _, _)
LowerRange(s, lo, hi) ==
    IF lo > hi THEN ""
    ELSE IF lo = hi THEN LowerChar(Char(s, lo))
    ELSE LET mid == (lo + hi) \div 2
         IN  LowerRange(s, lo, mid) \o LowerRange(s, mid + 1, hi)

\* str.lower()
lower(s) ==
    IF \A i \in 1..Len(s) : Char(s, i) \notin UpperChars THEN s
    ELSE LowerRange(s, 1, Len(s))

Least(S) == CHOOSE x \in S : \A y \in S : x <= y

\* Whether the character at i is in cs (inside = TRUE) or outside it.
InClass(s, i, cs, inside) == (Char(s, i) \in cs) = inside

\* The maximal runs of characters inside (or outside) cs, from left to right.
Runs(s, cs, inside) ==
    LET hits == {i \in 1..Len(s) : InClass(s, i, cs, inside)}
        starts == {i \in hits : (i - 1) \notin hits}
        ends == {i \in hits : (i + 1) \notin hits}
        EndOf(i) == Least({j \in ends : j >= i})
        Start(k) == CHOOSE i \in starts : Cardinality({j \in starts : j < i}) = k - 1
    IN  [k \in 1..Cardinality(starts) |-> SubSeq(s, Start(k), EndOf(Start(k)))]

\* str.split() without arguments: the maximal runs of non-whitespace.
split(s) == Runs(s, Whitespace, FALSE)

\* str.strip() without arguments.
strip(s) ==
    LET kept == {i \in 1..Len(s) : Char(s, i) \notin Whitespace}
        first == CHOOSE i \in kept : \A j \in kept : i <= j
        last == CHOOSE i \in kept : \A j \in kept : j <= i
    IN  IF kept = {} THEN "" ELSE SubSeq(s, first, last)

\* The Python test `sub in s` on strings.
contains(sub, s) ==
    \E i \in 1..(Len(s) - Len(sub) + 1) : SubSeq(s, i, i + Len(sub) - 1) = sub

IsWord(run) == Len(run) >= 3 /\ \A i \in 1..Len(run) : Char(run, i) \in AsciiLetters

\* re.findall(r'\b[a-zA-Z]{3,}\b', s): a match starts and ends at a word
\* boundary and holds only letters, so it is a maximal run of \w characters
\* that has at least three characters, all of them ASCII letters.
findall(s) == SelectSeq(Runs(s, WordChars, TRUE), IsWord)

\* seq[:n]
Take(seq, n) == SubSeq(seq, 1, IF Len(seq) < n THEN Len(seq) ELSE n)

\* All sequences over S of length at most n.
SeqsUpTo(S, n) == UNION {[1..k -> S] : k \in 0..n}

Range(seq) == {seq[i] : i \in DOMAIN seq}

----------------------------------------------------------------------------
(* keyword_service.py: seed extraction *)

stop_words ==
    {"the", "and", "for", "are", "but", "not", "you", "all", "can", "her",
     "was", "one", "our", "had", "but", "words", "use", "each", "which",
     "she", "how", "its", "said", "from", "they", "this", "been", "have",
     "their", "with", "that"}

\* The fallback list of the except branch of extract_seed_keywords.
fallback_keywords ==
    <<"digital marketing", "online services", "web solutions", "business consulting">>

\* keywords[:10]
TopSeeds == 10

\* set([word for word in words if word not in stop_words]) of the joined,
\* lower-cased page text.
SeedCandidates(all_text) ==
    {w \in Range(findall(lower(all_text))) : w \notin stop_words}

\* One enumeration of a finite set of texts.
RECURSIVE Enumerate(_)
Enumerate(S) ==
    IF S = {} THEN <<>> ELSE LET x == CHOOSE y \in S : TRUE IN <<x>> \o Enumerate(S \ {x})

Rotate(seq, k) == [i \in 1..Len(seq) |-> seq[((i + k - 1) % Len(seq)) + 1]]

Reverse(seq) == [i \in 1..Len(seq) |-> seq[Len(seq) + 1 - i]]

\* list(set(...)): the iteration order of a set of strings is not fixed by
\* the code (it changes with the interpreter's hash seed).  The orders taken
\* here are every rotation of one enumeration and of its reverse; for a set
\* of at most three elements these are all of its orders.
ListOfSet(S) ==
    IF S = {} THEN {<<>>}
    ELSE {Rotate(Enumerate(S), k) : k \in 0..(Cardinality(S) - 1)}
         \cup {Rotate(Reverse(Enumerate(S)), k) : k \in 0..(Cardinality(S) - 1)}

\* A page fetch as the environment decides it: it fails (requests.get or the
\* parser raises), or it yields the page's title, description and headings and
\* the order in which the set of candidate words is listed.
FetchFailed == [ok |-> FALSE, all_text |-> "", listed |-> <<>>]

FetchOutcomes(pages) ==
    {FetchFailed}
    \cup UNION {{[ok |-> TRUE, all_text |-> p, listed |-> l] :
                    l \in ListOfSet(SeedCandidates(p))} : p \in pages}

\* Mutant: the except branch returns an empty list instead of the fallback.
extract_seed_keywords_no_fallback(outcome) ==
    IF outcome.ok THEN Take(outcome.listed, TopSeeds) ELSE <<>>

extract_seed_keywords(outcome) ==
    IF outcome.ok THEN Take(outcome.listed, TopSeeds) ELSE fallback_keywords

----------------------------------------------------------------------------
(* keyword_service.py: mock keyword ideas, filter, ad groups *)

base_volumes == <<1000, 2500, 5000, 1200, 800, 3200, 4500, 600, 1800, 2200>>

competitions == <<"LOW", "MEDIUM", "HIGH">>

suffixes == <<"", " online", " shop", " buy", " best", " reviews">>

\* seed_keywords[:10]
SeedLimit == 10

\* search_volume >= 500
MinSearchVolume == 500

\* Mutant: the seed index is counted from 1.
MockKeywordFromOne(seed, i, suffix) ==
    [keyword |-> strip(seed \o suffix),
     search_volume |-> base_volumes[((i + 1) % Len(base_volumes)) + 1] + (i + 1) * 100,
     competition |-> competitions[((i + 1) % Len(competitions)) + 1],
     cpc_low |-> 50 + i * 30,
     cpc_high |-> 120 + i * 40]

\* The record appended for seed number i (from 0) and one suffix.
\* cpc_low = round(0.5 + i * 0.3, 2) and cpc_high = round(1.2 + i * 0.4, 2),
\* in cents.
MockKeyword(seed, i, suffix) ==
    [keyword |-> strip(seed \o suffix),
     search_volume |-> base_volumes[(i % Len(base_volumes)) + 1] + i * 100,
     competition |-> competitions[(i % Len(competitions)) + 1],
     cpc_low |-> 50 + i * 30,
     cpc_high |-> 120 + i * 40]

\* Mutant: every seed is used, not only seed_keywords[:10].
get_keyword_ideas_unsliced(seeds) ==
    LET ns == Len(suffixes)
    IN  [n \in 1..(Len(seeds) * ns) |->
            MockKeyword(seeds[((n - 1) \div ns) + 1], (n - 1) \div ns,
                        suffixes[((n - 1) % ns) + 1])]

get_keyword_ideas_from_google(seeds) ==
    LET used == Take(seeds, SeedLimit)
        ns == Len(suffixes)
    IN  [n \in 1..(Len(used) * ns) |->
            MockKeyword(used[((n - 1) \div ns) + 1], (n - 1) \div ns,
                        suffixes[((n - 1) % ns) + 1])]

\* Mutant: the threshold has a zero too many.
KeepsKeywordTenfold(kw) == kw.search_volume >= 10 * MinSearchVolume

KeepsKeyword(kw) == kw.search_volume >= MinSearchVolume

filter_keywords(ideas) == SelectSeq(ideas, KeepsKeyword)

AdGroupNames ==
    {"brand_terms", "category_terms", "competitor_terms", "location_terms",
     "long_tail_terms"}

competitor_tokens == {"vs", "versus", "compared", "alternative"}

location_tokens == {"near me", "local", "city", "area"}

\* Mutant: the locality tokens are tested before the competitor tokens.
AdGroupOfLocationFirst(keyword) ==
    LET kw_text == lower(keyword.keyword)
    IN  IF Len(split(kw_text)) >= 3 THEN "long_tail_terms"
        ELSE IF \E loc \in location_tokens : contains(loc, kw_text)
             THEN "location_terms"
        ELSE IF \E comp \in competitor_tokens : contains(comp, kw_text)
             THEN "competitor_terms"
        ELSE IF keyword.competition = "HIGH" THEN "brand_terms"
        ELSE "category_terms"

\* The if/elif chain of group_keywords_into_ad_groups for one keyword.
AdGroupOf(keyword) ==
    LET kw_text == lower(keyword.keyword)
    IN  IF Len(split(kw_text)) >= 3 THEN "long_tail_terms"
        ELSE IF \E comp \in competitor_tokens : contains(comp, kw_text)
             THEN "competitor_terms"
        ELSE IF \E loc \in location_tokens : contains(loc, kw_text)
             THEN "location_terms"
        ELSE IF keyword.competition = "HIGH" THEN "brand_terms"
        ELSE "category_terms"

\* The for loop over keywords[lo..hi]: each keyword is appended to the list of
\* its group, so the lists of a range are those of its first half followed by
\* those of its second half.
RECURSIVE GroupRange(_, _, _)
GroupRange(keywords, lo, hi) ==
    IF lo > hi THEN [g \in AdGroupNames |-> <<>>]
    ELSE IF lo = hi
         THEN LET group == AdGroupOf(keywords[lo])
              IN  [g \in AdGroupNames |-> IF g = group THEN <<keywords[lo]>> ELSE <<>>]
    ELSE LET mid == (lo + hi) \div 2
             head == GroupRange(keywords, lo, mid)
             tail == GroupRange(keywords, mid + 1, hi)
         IN  [g \in AdGroupNames |-> head[g] \o tail[g]]

\* Mutant: the second test is an `if`, not an `elif`, so a keyword of three
\* words is appended to long_tail_terms and to one more list.
group_keywords_second_if(keywords) ==
    LET chained == GroupRange(keywords, 1, Len(keywords))
        AlsoBrand(kw) == /\ Len(split(lower(kw.keyword))) >= 3
                         /\ kw.competition = "HIGH"
    IN  [chained EXCEPT !["brand_terms"] = @ \o SelectSeq(keywords, AlsoBrand)]

group_keywords_into_ad_groups(keywords) == GroupRange(keywords, 1, Len(keywords))

----------------------------------------------------------------------------
(* main.py: budget calculator *)

RECURSIVE SumRange(_, _, _)
SumRange(keywords, lo, hi) ==
    IF lo > hi THEN 0
    ELSE IF lo = hi THEN keywords[lo].search_volume
    ELSE LET mid == (lo + hi) \div 2
         IN  SumRange(keywords, lo, mid) + SumRange(keywords, mid + 1, hi)

\* sum(kw['search_volume'] for kw in keywords)
SumVolumes(keywords) == SumRange(keywords, 1, Len(keywords))

\* kw['search_volume'] > 5000
HighVolume == 5000

IsHighVolume(kw) == kw.search_volume > HighVolume

Theme(name, keywords) ==
    [theme |-> name, keywords |-> Len(keywords),
     estimated_reach |-> SumVolumes(keywords)]

calculate_campaign_suggestions(kd, shopping_budget, search_budget, pmax_budget) ==
    [performance_max_themes |->
        [product_category_themes |->
            <<Theme("High Volume Products", SelectSeq(kd.keywords, IsHighVolume))>>,
         use_case_themes |->
            <<Theme("Detailed Solutions", kd.ad_groups["long_tail_terms"])>>,
         demographic_themes |->
            <<Theme("Location-Based Services", kd.ad_groups["location_terms"])>>,
         seasonal_themes |-> <<>>],
     budget_allocation |->
        [shopping_budget |-> shopping_budget,
         search_budget |-> search_budget,
         pmax_budget |-> pmax_budget,
         total_budget |-> shopping_budget + search_budget + pmax_budget]]

\* conversion_rate = 0.02, in percent
ConversionRatePercent == 2

\* keyword['search_volume'] > 10000
PriorityVolume == 10000

\* The positions of the keywords whose average CPC falls exactly between two
\* cents: there round(avg_cpc, 2) rounds the binary float, which lies a little
\* below or a little above the half cent, so either neighbour can come out.
HalfCentIndexes(keywords) ==
    {i \in DOMAIN keywords : (keywords[i].cpc_low + keywords[i].cpc_high) % 2 = 1}

\* round(avg_cpc, 2) in cents, of avg_cpc = cents_sum / 2.
RoundAverage(cents_sum, up) ==
    IF cents_sum % 2 = 0 THEN cents_sum \div 2
    ELSE (cents_sum - 1) \div 2 + (IF up THEN 1 ELSE 0)

\* Mutant: `or` for `and`.
PriorityOfEither(keyword) ==
    IF keyword.search_volume > PriorityVolume \/ keyword.competition = "MEDIUM"
    THEN "HIGH" ELSE "MEDIUM"

PriorityOf(keyword) ==
    IF keyword.search_volume > PriorityVolume /\ keyword.competition = "MEDIUM"
    THEN "HIGH" ELSE "MEDIUM"

\* One entry of the recommendations.  target_cpa = round(avg_cpc / 0.02, 2) is
\* taken from the unrounded average: (sum / 2) / (rate / 100), in cents.
Recommendation(keyword, up) ==
    LET cents_sum == keyword.cpc_low + keyword.cpc_high
    IN  [suggested_cpc |-> RoundAverage(cents_sum, up),
         target_cpa |-> (cents_sum * 100) \div (2 * ConversionRatePercent),
         competition |-> keyword.competition,
         priority |-> PriorityOf(keyword)]

\* Mutant: a key that is already in the dict keeps its first value.
KeepFirst(earlier, later) ==
    [k \in DOMAIN earlier \cup DOMAIN later |->
        IF k \in DOMAIN earlier THEN earlier[k] ELSE later[k]]

\* The dict after the assignments of earlier followed by those of later: a
\* key assigned in both keeps the later value.
Overwrite(earlier, later) ==
    [k \in DOMAIN earlier \cup DOMAIN later |->
        IF k \in DOMAIN later THEN later[k] ELSE earlier[k]]

\* The for loop over keywords[lo..hi], each turn doing
\* recommendations[keyword['keyword']] = {...}.
RECURSIVE CpcRange(_, _, _, _)
CpcRange(keywords, lo, hi, ups) ==
    IF lo > hi THEN <<>>
    ELSE IF lo = hi
         THEN [k \in {keywords[lo].keyword} |-> Recommendation(keywords[lo], lo \in ups)]
    ELSE LET mid == (lo + hi) \div 2
         IN  Overwrite(CpcRange(keywords, lo, mid, ups),
                       CpcRange(keywords, mid + 1, hi, ups))

\* ups: the half-cent positions that round upwards.  total_budget is a
\* parameter the body never reads.
calculate_cpc_recommendations(keywords, total_budget, ups) ==
    CpcRange(keywords, 1, Len(keywords), ups)

----------------------------------------------------------------------------
(* Exceptions and HTTP responses *)

NoException == [where |-> "nowhere"]

\* An exception other than HTTPException raised while a request is handled
\* (a MemoryError, a print to a closed or mis-encoded stdout, ...).
RuntimeErrors == {[type |-> "RuntimeError", message |-> "boom"]}

HTTPException(status_code, detail) ==
    [type |-> "HTTPException", status_code |-> status_code, detail |-> detail]

\* The classes `except Exception` catches: fastapi.HTTPException derives from
\* Exception like every error above.
ExceptionSubclasses == {"RuntimeError", "HTTPException"}

StatusText(status_code) == IF status_code = 400 THEN "400" ELSE "500"

\* str(e); Starlette renders an HTTPException as "<status>: <detail>".
StrOf(e) ==
    IF e.type = "HTTPException"
    THEN StatusText(e.status_code) \o ": " \o e.detail
    ELSE e.message

NoResponse == [status_code |-> 0, body |-> <<>>]

\* What FastAPI sends for an HTTPException that leaves the endpoint.
ErrorResponse(e) == [status_code |-> e.status_code, body |-> [detail |-> e.detail]]

OkResponse(body) == [status_code |-> 200, body |-> body]

----------------------------------------------------------------------------
(* main.py: the endpoint *)

None == "None"

\* Python truth of an optional string: None and "" are false.
Truthy(x) == x # None /\ x # ""

HasError(kd) == "error" \in DOMAIN kd

\* The dict discover_keywords returns from its try body.
DiscoveredData(seeds, ideas) ==
    LET filtered_keywords == filter_keywords(ideas)
    IN  [total_keywords |-> Len(filtered_keywords),
         keywords |-> filtered_keywords,
         ad_groups |-> group_keywords_into_ad_groups(filtered_keywords),
         seed_keywords_used |-> seeds]

\* The dict discover_keywords returns from its except branch.
ErrorData(e) == [error |-> StrOf(e)]

\* The try body of analyze_sem_campaign once discover_keywords has returned:
\* what it returns, or the exception it raises.
EndpointTry(kd, req, ups) ==
    IF HasError(kd)
    THEN [raises |-> HTTPException(400, kd.error)]
    ELSE [returns |->
            [total_keywords |-> kd.total_keywords,
             keywords |-> kd.keywords,
             ad_groups |-> kd.ad_groups,
             campaign_suggestions |->
                calculate_campaign_suggestions(kd, req.shopping_budget,
                                               req.search_budget, req.pmax_budget),
             cpc_recommendations |->
                calculate_cpc_recommendations(
                    kd.keywords,
                    req.shopping_budget + req.search_budget + req.pmax_budget, ups),
             seed_keywords_used |-> kd.seed_keywords_used]]

\* `except Exception as e: raise HTTPException(status_code=500, detail=str(e))`
\* around the try body.
EndpointExcept(outcome) ==
    IF "returns" \in DOMAIN outcome THEN OkResponse(outcome.returns)
    ELSE IF outcome.raises.type \in ExceptionSubclasses
         THEN ErrorResponse(HTTPException(500, StrOf(outcome.raises)))
         ELSE ErrorResponse(outcome.raises)

----------------------------------------------------------------------------
(* The service: requests handled by coroutines of one event loop *)

Requests == 1..MaxRequests

\* Mutant: the seed list is kept on the shared service object.
SeedsOfShared(seeds, r) == seeds[1]

\* The seed list a request's discover_keywords works on: a local of its own
\* coroutine frame.
SeedsOf(seeds, r) == seeds[r]

StartedService ==
    [client |-> "GoogleAdsClient.load_from_dict(env)",
     customer_id |-> "GOOGLE_ADS_CUSTOMER_ID"]

NoCall == [fn |-> "none"]

ServiceInit ==
    /\ service = StartedService
    /\ pc = [r \in Requests |-> "idle"]
    /\ request = [r \in Requests |-> <<>>]
    /\ fetched = [r \in Requests |-> <<>>]
    /\ seed_keywords = [r \in Requests |-> <<>>]
    /\ keyword_ideas = [r \in Requests |-> <<>>]
    /\ keyword_data = [r \in Requests |-> <<>>]
    /\ raised = [r \in Requests |-> NoException]
    /\ response = [r \in Requests |-> NoResponse]

serviceVars == <<service, pc, request, fetched, seed_keywords, keyword_ideas,
                 keyword_data, raised, response>>

\* POST /analyze-sem-campaign arrives and runs up to the first fetch.
Receive(r, bodies) ==
    /\ pc[r] = "idle"
    /\ \E body \in bodies : request' = [request EXCEPT ![r] = body]
    /\ pc' = [pc EXCEPT ![r] = "extract_brand"]
    /\ UNCHANGED <<service, fetched, seed_keywords, keyword_ideas, keyword_data,
                   raised, response, call>>

\* seed_keywords = await self.extract_seed_keywords(brand_website)
ExtractBrand(r, outcomes) ==
    /\ pc[r] = "extract_brand"
    /\ \E o \in outcomes :
          /\ fetched' = [fetched EXCEPT ![r] = Append(@, o)]
          /\ seed_keywords' = [seed_keywords EXCEPT ![r] = extract_seed_keywords(o)]
    /\ pc' = [pc EXCEPT ![r] = IF Truthy(request[r].competitor_website)
                                THEN "extract_competitor" ELSE "get_ideas"]
    /\ UNCHANGED <<service, request, keyword_ideas, keyword_data, raised,
                   response, call>>

\* comp_seeds = await self.extract_seed_keywords(competitor_website)
\* seed_keywords.extend(comp_seeds)
ExtractCompetitor(r, outcomes) ==
    /\ pc[r] = "extract_competitor"
    /\ \E o \in outcomes :
          /\ fetched' = [fetched EXCEPT ![r] = Append(@, o)]
          /\ seed_keywords' =
                [seed_keywords EXCEPT ![r] =
                    SeedsOf(seed_keywords, r) \o extract_seed_keywords(o)]
    /\ pc' = [pc EXCEPT ![r] = "get_ideas"]
    /\ UNCHANGED <<service, request, keyword_ideas, keyword_data, raised,
                   response, call>>

\* keyword_ideas = await self.get_keyword_ideas_from_google(seed_keywords)
GetIdeas(r) ==
    /\ pc[r] = "get_ideas"
    /\ keyword_ideas' =
          [keyword_ideas EXCEPT ![r] =
              get_keyword_ideas_from_google(SeedsOf(seed_keywords, r))]
    /\ pc' = [pc EXCEPT ![r] = "filter_group"]
    /\ UNCHANGED <<service, request, fetched, seed_keywords, keyword_data,
                   raised, response, call>>

\* Steps 3 and 4 of discover_keywords and its return, with which the locals
\* of its frame are gone.
DiscoverReturns(r) ==
    /\ pc[r] = "filter_group"
    /\ keyword_data' =
          [keyword_data EXCEPT ![r] =
              DiscoveredData(SeedsOf(seed_keywords, r), keyword_ideas[r])]
    /\ seed_keywords' = [seed_keywords EXCEPT ![r] = <<>>]
    /\ keyword_ideas' = [keyword_ideas EXCEPT ![r] = <<>>]
    /\ pc' = [pc EXCEPT ![r] = "endpoint"]
    /\ UNCHANGED <<service, request, fetched, raised, response, call>>

\* An exception inside the try body of discover_keywords: its except branch
\* returns the error dict, and the locals of the frame are gone.
DiscoverRaises(r) ==
    /\ pc[r] \in {"extract_brand", "extract_competitor", "get_ideas", "filter_group"}
    /\ \E e \in RuntimeErrors :
          /\ raised' = [raised EXCEPT ![r] = [where |-> "discover_keywords", error |-> e]]
          /\ keyword_data' = [keyword_data EXCEPT ![r] = ErrorData(e)]
    /\ seed_keywords' = [seed_keywords EXCEPT ![r] = <<>>]
    /\ keyword_ideas' = [keyword_ideas EXCEPT ![r] = <<>>]
    /\ pc' = [pc EXCEPT ![r] = "endpoint"]
    /\ UNCHANGED <<service, request, fetched, response, call>>

\* The rest of analyze_sem_campaign: the error check, the budget calculator,
\* the response; the locals of its frame are gone with it.
Endpoint(r) ==
    /\ pc[r] = "endpoint"
    /\ \E ups \in SUBSET (IF HasError(keyword_data[r]) THEN {}
                           ELSE HalfCentIndexes(keyword_data[r].keywords)) :
          response' = [response EXCEPT ![r] =
              EndpointExcept(EndpointTry(keyword_data[r], request[r], ups))]
    /\ keyword_data' = [keyword_data EXCEPT ![r] = <<>>]
    /\ pc' = [pc EXCEPT ![r] = "done"]
    /\ UNCHANGED <<service, request, fetched, seed_keywords, keyword_ideas,
                   raised, call>>

\* An exception in the try body of analyze_sem_campaign itself, after
\* discover_keywords returned its keywords.
EndpointRaises(r) ==
    /\ pc[r] = "endpoint"
    /\ ~HasError(keyword_data[r])
    /\ \E e \in RuntimeErrors :
          /\ raised' = [raised EXCEPT ![r] =
                        [where |-> "analyze_sem_campaign", error |-> e]]
          /\ response' = [response EXCEPT ![r] = EndpointExcept([raises |-> e])]
    /\ keyword_data' = [keyword_data EXCEPT ![r] = <<>>]
    /\ pc' = [pc EXCEPT ![r] = "done"]
    /\ UNCHANGED <<service, request, fetched, seed_keywords, keyword_ideas, call>>

----------------------------------------------------------------------------
(* Inputs *)

Body(competitor_website) ==
    [brand_website |-> "https://brand.example",
     competitor_website |-> competitor_website,
     service_locations |-> "Pune, Mumbai",
     shopping_budget |-> 1000,
     search_budget |-> 2000,
     pmax_budget |-> 500]

Bodies == {Body(c) : c \in {None, "", "https://rival.example"}}

\* Page texts: one word; three seeds, one holding "vs" and one "city"; eleven
\* seeds, more than the ten that are kept; no seed at all.
Pages ==
    {"Shoes",
     "TVs and shoes for the city",
     "Running shoes, boots, sandals, socks, hats, belts, bags, coats, gloves and scarves",
     "24x7 web_apps for you"}

Outcomes == FetchOutcomes(Pages)

ConcurrentBodies == {Body(c) : c \in {None, "https://rival.example"}}

ConcurrentPages == {"Shoes"}

ConcurrentOutcomes == FetchOutcomes(ConcurrentPages)

----------------------------------------------------------------------------
(* Specifications *)

Init == ServiceInit /\ call = NoCall

\* One request, any body, any page.
Next ==
    \E r \in {1} :
        \/ Receive(r, Bodies)
        \/ ExtractBrand(r, Outcomes)
        \/ ExtractCompetitor(r, Outcomes)
        \/ GetIdeas(r)
        \/ DiscoverReturns(r)
        \/ DiscoverRaises(r)
        \/ Endpoint(r)
        \/ EndpointRaises(r)

Spec == Init /\ [][Next]_vars

\* Several requests in flight, their steps interleaved at every await; no
\* exception is injected.
NextConcurrent ==
    \E r \in Requests :
        \/ Receive(r, ConcurrentBodies)
        \/ ExtractBrand(r, ConcurrentOutcomes)
        \/ ExtractCompetitor(r, ConcurrentOutcomes)
        \/ GetIdeas(r)
        \/ DiscoverReturns(r)
        \/ Endpoint(r)

SpecConcurrent == Init /\ [][NextConcurrent]_vars

----------------------------------------------------------------------------
(* Direct calls of the pure functions *)

Pending(fn, args) == [fn |-> fn, args |-> args, returned |-> FALSE, result |-> <<>>]

Returned(result) == [call EXCEPT !.returned = TRUE, !.result = result]

IdeaSeeds == {"shoes", "web solutions"}

InitIdeas ==
    /\ ServiceInit
    /\ \E seeds \in SeqsUpTo(IdeaSeeds, MaxSeedList) :
          call = Pending("get_keyword_ideas_from_google", seeds)

CallIdeas ==
    /\ call.fn = "get_keyword_ideas_from_google"
    /\ ~call.returned
    /\ call' = Returned(get_keyword_ideas_from_google(call.args))
    /\ UNCHANGED serviceVars

SpecIdeas == InitIdeas /\ [][CallIdeas]_vars

Keyword(text, search_volume, competition, cpc_low, cpc_high) ==
    [keyword |-> text, search_volume |-> search_volume, competition |-> competition,
     cpc_low |-> cpc_low, cpc_high |-> cpc_high]

\* Texts for the five rules and for the places where two of them meet.
GroupSamples ==
    {Keyword("shoes", 1000, "HIGH", 50, 120),
     Keyword("shoes", 2600, "MEDIUM", 80, 160),
     Keyword("best running shoes", 1000, "HIGH", 50, 120),
     Keyword("nike vs adidas", 1000, "LOW", 50, 120),
     Keyword("tvs  online", 1000, "HIGH", 50, 120),
     Keyword("Shoes VERSUS", 1000, "LOW", 50, 120),
     Keyword("local alternative", 1000, "HIGH", 50, 120),
     Keyword("City shoes", 1000, "HIGH", 50, 120),
     Keyword("near me", 1000, "LOW", 50, 120),
     Keyword("near  me", 1000, "LOW", 50, 120)}

InitGroup ==
    /\ ServiceInit
    /\ \E keywords \in SeqsUpTo(GroupSamples, MaxGroupList) :
          call = Pending("group_keywords_into_ad_groups", keywords)

CallGroup ==
    /\ call.fn = "group_keywords_into_ad_groups"
    /\ ~call.returned
    /\ call' = Returned(group_keywords_into_ad_groups(call.args))
    /\ UNCHANGED serviceVars

SpecGroup == InitGroup /\ [][CallGroup]_vars

\* Volumes on both sides of 10000, two competitions, an average CPC with two
\* decimals (0.85) and one with three (0.855).
CpcSamples ==
    {Keyword(t, v, c, 50, h) :
        t \in {"shoes", "boots"}, v \in {10000, 12000},
        c \in {"MEDIUM", "HIGH"}, h \in {120, 121}}

CpcBudgets == {0, 3500}

InitCpc ==
    /\ ServiceInit
    /\ \E keywords \in SeqsUpTo(CpcSamples, MaxCpcList), total_budget \in CpcBudgets :
          call = Pending("calculate_cpc_recommendations",
                         [keywords |-> keywords, total_budget |-> total_budget])

CallCpc ==
    /\ call.fn = "calculate_cpc_recommendations"
    /\ ~call.returned
    /\ \E ups \in SUBSET HalfCentIndexes(call.args.keywords) :
          call' = Returned(calculate_cpc_recommendations(
                               call.args.keywords, call.args.total_budget, ups))
    /\ UNCHANGED serviceVars

SpecCpc == InitCpc /\ [][CallCpc]_vars

----------------------------------------------------------------------------
(* Claims *)

Done(r) == pc[r] = "done"

Succeeded(r) == Done(r) /\ response[r].status_code = 200

\* C1: when discover_keywords reports an error (its dict holds 'error'), the
\* response has status 400 and the error message as its detail; status 500
\* is produced only for other, unhandled exceptions.
C1_PipelineErrorIs400 ==
    \A r \in Requests :
        Done(r) =>
            /\ raised[r].where = "discover_keywords" =>
                  /\ response[r].status_code = 400
                  /\ response[r].body.detail = raised[r].error.message
            /\ response[r].status_code = 500 =>
                  raised[r].where = "analyze_sem_campaign"

\* The group the claim's five rules give a keyword, first match first, on the
\* text as the function reads it (lower-cased).
C2_Claimed(k) ==
    LET text == lower(k.keyword)
        has(tokens) == \E t \in tokens : contains(t, text)
    IN  CASE Len(split(text)) >= 3 -> "long_tail_terms"
          [] Len(split(text)) < 3 /\ has({"vs", "versus", "compared", "alternative"})
                -> "competitor_terms"
          [] Len(split(text)) < 3 /\ ~has({"vs", "versus", "compared", "alternative"})
             /\ has({"near me", "local", "city", "area"})
                -> "location_terms"
          [] OTHER -> IF k.competition = "HIGH" THEN "brand_terms" ELSE "category_terms"

C2_Groups ==
    {"brand_terms", "category_terms", "competitor_terms", "location_terms",
     "long_tail_terms"}

C2_Grouped == call.fn = "group_keywords_into_ad_groups" /\ call.returned

\* C2: bucketing is total and exclusive: the result has exactly the five
\* lists, each list holds, in input order, exactly the keywords whose first
\* matching rule selects it, and so every keyword is in exactly one list.
C2_BucketingTotalExclusive ==
    C2_Grouped =>
        LET keywords == call.args
            ad_groups == call.result
            places(g) == {i \in DOMAIN keywords : C2_Claimed(keywords[i]) = g}
        IN  /\ DOMAIN ad_groups = C2_Groups
            /\ \A g \in C2_Groups :
                  /\ Len(ad_groups[g]) = Cardinality(places(g))
                  /\ \A n \in DOMAIN ad_groups[g] :
                        \E i \in places(g) :
                            /\ Cardinality({j \in places(g) : j < i}) = n - 1
                            /\ ad_groups[g][n] = keywords[i]
            /\ \A i \in DOMAIN keywords :
                  Cardinality({g \in C2_Groups : i \in places(g)}) = 1

\* A call where a rule of higher priority wins over one of lower priority:
\* a competitor token beside a locality token, and three words beside "vs".
C2_Witness ==
    /\ C2_Grouped
    /\ \E i \in DOMAIN call.args : call.args[i].keyword = "local alternative"
    /\ \E i \in DOMAIN call.args : call.args[i].keyword = "nike vs adidas"
    /\ Len(call.result["competitor_terms"]) = 1
    /\ Len(call.result["long_tail_terms"]) = 1

GroupTotal(ad_groups) ==
    Len(ad_groups["brand_terms"]) + Len(ad_groups["category_terms"])
        + Len(ad_groups["competitor_terms"]) + Len(ad_groups["location_terms"])
        + Len(ad_groups["long_tail_terms"])

\* C3: in every 200 response total_keywords equals len(keywords), and both
\* equal the sum of the lengths of the five ad_groups lists.
C3_TotalsAgree ==
    \A r \in Requests :
        Succeeded(r) =>
            LET body == response[r].body
            IN  /\ body.total_keywords = Len(body.keywords)
                /\ body.total_keywords = GroupTotal(body.ad_groups)

\* A 200 response whose keywords are spread over several lists.
C3_Witness ==
    \E r \in Requests :
        /\ Succeeded(r)
        /\ response[r].body.total_keywords > 0
        /\ Len(response[r].body.ad_groups["long_tail_terms"]) > 0
        /\ Len(response[r].body.ad_groups["competitor_terms"]) > 0
        /\ Len(response[r].body.ad_groups["location_terms"]) > 0

C4_AtLeast500(kw) == kw.search_volume >= 500

\* C4: what discover_keywords returns, in 'keywords' and in every ad_groups
\* list, has search_volume >= 500, and 'keywords' is the generated ideas with
\* volume >= 500, all of them, in generation order.
C4_VolumeFilter ==
    [][\A r \in Requests :
          (pc[r] = "filter_group" /\ pc'[r] = "endpoint"
              /\ "keywords" \in DOMAIN keyword_data'[r]) =>
                LET kd == keyword_data'[r]
                IN  /\ kd.keywords = SelectSeq(keyword_ideas[r], C4_AtLeast500)
                    /\ \A i \in DOMAIN kd.keywords : kd.keywords[i].search_volume >= 500
                    /\ \A g \in DOMAIN kd.ad_groups :
                          \A i \in DOMAIN kd.ad_groups[g] :
                              kd.ad_groups[g][i].search_volume >= 500]_vars

\* discover_keywords has returned keywords.
C4_Witness ==
    \E r \in Requests :
        /\ pc[r] = "endpoint"
        /\ "keywords" \in DOMAIN keyword_data[r]
        /\ Len(keyword_data[r].keywords) >= 12

C5_Fallback ==
    <<"digital marketing", "online services", "web solutions", "business consulting">>

SuffixTexts == <<"", " online", " shop", " buy", " best", " reviews">>

\* The brand page could not be fetched or parsed, and nothing else went wrong.
C5_BrandScrapeFailed(r) ==
    /\ Done(r)
    /\ raised[r] = NoException
    /\ Len(fetched[r]) >= 1
    /\ ~fetched[r][1].ok

\* C5: a failed scrape of brand_website does not surface: the response is 200,
\* seed_keywords_used starts with the four fallback phrases (and is exactly
\* them without a competitor_website), and the first keywords are the
\* fallback phrases with the six suffixes.
C5_ScrapeFailureFallsBack ==
    \A r \in Requests :
        C5_BrandScrapeFailed(r) =>
            LET body == response[r].body
            IN  /\ response[r].status_code = 200
                /\ Len(body.seed_keywords_used) >= 4
                /\ SubSeq(body.seed_keywords_used, 1, 4) = C5_Fallback
                /\ request[r].competitor_website \in {None, ""} =>
                      body.seed_keywords_used = C5_Fallback
                /\ Len(body.keywords) >= 24
                /\ \A i \in 1..4 : \A j \in 1..6 :
                      body.keywords[6 * (i - 1) + j].keyword
                          = C5_Fallback[i] \o SuffixTexts[j]

C5_Witness ==
    \E r \in Requests :
        /\ C5_BrandScrapeFailed(r)
        /\ request[r].competitor_website = None
        /\ response[r].body.total_keywords = 24

C6_Generated == call.fn = "get_keyword_ideas_from_google" /\ call.returned

C6_Texts ==
    <<"shoes", "shoes online", "shoes shop", "shoes buy", "shoes best", "shoes reviews">>

C6_BaseVolumes == <<1000, 2500, 5000, 1200, 800, 3200, 4500, 600, 1800, 2200>>

C6_Competitions == <<"LOW", "MEDIUM", "HIGH">>

\* The general rule: the record at place n comes from seed number
\* seed_index = (n - 1) div 6, counted from 0.
C6_Formula ==
    \A n \in DOMAIN call.result :
        LET seed_index == (n - 1) \div 6
        IN  /\ call.result[n].search_volume
                  = C6_BaseVolumes[(seed_index % 10) + 1] + seed_index * 100
            /\ call.result[n].competition = C6_Competitions[(seed_index % 3) + 1]

C6_ShoesTexts ==
    /\ Len(call.result) = 6
    /\ \A n \in 1..6 : call.result[n].keyword = C6_Texts[n]

\* C6 as written: the six records of ["shoes"] have the volumes
\* [1000, 1100, 1100, 1100, 1100, 1100].
C6_Original ==
    C6_Generated =>
        /\ C6_Formula
        /\ call.args = <<"shoes">> =>
              /\ C6_ShoesTexts
              /\ [n \in 1..6 |-> call.result[n].search_volume]
                    = <<1000, 1100, 1100, 1100, 1100, 1100>>

\* C6: ["shoes"] gives exactly six records, shoes, shoes online, shoes shop,
\* shoes buy, shoes best, shoes reviews, each with volume 1000 (all six have
\* seed_index 0); in general a record's volume is
\* base_volumes[seed_index mod 10] + seed_index * 100 and its competition the
\* (seed_index mod 3)-th of LOW, MEDIUM, HIGH.
C6_ShoesVariants ==
    C6_Generated =>
        /\ C6_Formula
        /\ call.args = <<"shoes">> =>
              /\ C6_ShoesTexts
              /\ [n \in 1..6 |-> call.result[n].search_volume]
                    = <<1000, 1000, 1000, 1000, 1000, 1000>>

C6_Witness == C6_Generated /\ call.args = <<"shoes">> /\ Len(call.result) = 6

C7_Calculated == call.fn = "calculate_cpc_recommendations" /\ call.returned

\* The keywords of the call whose text no other keyword of the call has.
C7_UniqueTexts ==
    {i \in DOMAIN call.args.keywords :
        \A j \in DOMAIN call.args.keywords :
            j # i => call.args.keywords[j].keyword # call.args.keywords[i].keyword}

ClaimedPriority(k) ==
    IF k.search_volume > 10000 /\ k.competition = "MEDIUM" THEN "HIGH" ELSE "MEDIUM"

C8_Alone(body, outcomes) ==
    LET brand == extract_seed_keywords(outcomes[1])
        seeds == IF Truthy(body.competitor_website)
                 THEN brand \o extract_seed_keywords(outcomes[2])
                 ELSE brand
        kd == DiscoveredData(seeds, get_keyword_ideas_from_google(seeds))
    IN  EndpointExcept(EndpointTry(kd, body, {}))

\* C8: whatever the interleaving, a finished request's response is the one it
\* would have had alone with the same page-fetch outcomes, and the service
\* object is as it was at start-up.
C8_RequestsIndependent ==
    /\ service = StartedService
    /\ \A r \in Requests :
          Done(r) => response[r] = C8_Alone(request[r], fetched[r])

\* Two requests with different bodies and fetch outcomes have both finished.
C8_Witness ==
    /\ Done(1) /\ Done(2)
    /\ request[1] # request[2]
    /\ fetched[1][1].ok /\ ~fetched[2][1].ok
    /\ response[1] # response[2]

C9_Texts(keywords) == {keywords[i].keyword : i \in DOMAIN keywords}

C9_Last(keywords, text) ==
    CHOOSE i \in DOMAIN keywords :
        /\ keywords[i].keyword = text
        /\ \A j \in DOMAIN keywords : j > i => keywords[j].keyword # text

\* Two of the first n seeds are the same text.
C9_SeedsCoincide(seeds, n) ==
    \E i, j \in 1..n : i < j /\ j <= Len(seeds) /\ seeds[i] = seeds[j]

\* What the claim says of every response, apart from when the dict is
\* strictly smaller than the keyword list.
C9_Keyed(body) ==
    LET keywords == body.keywords
        cpc == body.cpc_recommendations
        seeds == body.seed_keywords_used
    IN  /\ DOMAIN cpc = C9_Texts(keywords)
        /\ Cardinality(DOMAIN cpc) <= body.total_keywords
        /\ \A text \in DOMAIN cpc :
              LET k == keywords[C9_Last(keywords, text)]
              IN  /\ 2 * cpc[text].suggested_cpc = k.cpc_low + k.cpc_high
                  /\ cpc[text].target_cpa = 25 * (k.cpc_low + k.cpc_high)
                  /\ cpc[text].competition = k.competition
                  /\ cpc[text].priority = ClaimedPriority(k)
        /\ \A i, j \in 1..10 :
              (i < j /\ j <= Len(seeds) /\ seeds[i] = seeds[j]) =>
                  \A n \in 1..6 :
                      /\ 6 * (j - 1) + n <= Len(keywords)
                      /\ keywords[6 * (i - 1) + n].keyword
                            = keywords[6 * (j - 1) + n].keyword
        /\ GroupTotal(body.ad_groups) = Len(keywords)

\* C9 as written: the dict is strictly smaller than the keyword list
\* whenever two seeds of seed_keywords_used coincide.
C9_Original ==
    \A r \in Requests :
        Succeeded(r) =>
            LET body == response[r].body
            IN  /\ C9_Keyed(body)
                /\ C9_SeedsCoincide(body.seed_keywords_used,
                                    Len(body.seed_keywords_used)) =>
                      Cardinality(DOMAIN body.cpc_recommendations) < body.total_keywords

\* C9: the keys of cpc_recommendations are the distinct texts of keywords, so
\* there are at most total_keywords of them, and strictly fewer exactly when
\* two of the first 10 seeds of seed_keywords_used coincide (as when both
\* sites fall back); an entry comes from the last keyword with its text;
\* keywords and ad_groups keep every duplicate.
C9_CpcKeyedByText ==
    \A r \in Requests :
        Succeeded(r) =>
            LET body == response[r].body
            IN  /\ C9_Keyed(body)
                /\ C9_SeedsCoincide(body.seed_keywords_used, 10) <=>
                      Cardinality(DOMAIN body.cpc_recommendations) < body.total_keywords

\* Both sites fell back to the same four seeds.
C9_Witness ==
    \E r \in Requests :
        /\ Succeeded(r)
        /\ Len(fetched[r]) = 2 /\ ~fetched[r][1].ok /\ ~fetched[r][2].ok
        /\ response[r].body.total_keywords = 48
        /\ Cardinality(DOMAIN response[r].body.cpc_recommendations) = 24

C10_Min(a, b) == IF a < b THEN a ELSE b

\* C10: in every 200 response total_keywords is 6 * min(10,
\* len(seed_keywords_used)), seed_keywords_used has at most 20 seeds, and the
\* n-th keyword is seed number (n - 1) div 6 of the first 10 with one of the
\* six suffixes, so seeds from place 10 on contribute nothing.
C10_FirstTenSeedsOnly ==
    \A r \in Requests :
        Succeeded(r) =>
            LET body == response[r].body
                seeds == body.seed_keywords_used
            IN  /\ Len(seeds) <= 20
                /\ body.total_keywords = 6 * C10_Min(10, Len(seeds))
                /\ Len(body.keywords) = body.total_keywords
                /\ \A n \in DOMAIN body.keywords :
                      /\ (n - 1) \div 6 < 10
                      /\ body.keywords[n].keyword
                            = seeds[((n - 1) \div 6) + 1] \o SuffixTexts[((n - 1) % 6) + 1]

\* The brand page gave ten seeds and the competitor page more.
C10_Witness ==
    \E r \in Requests :
        /\ Succeeded(r)
        /\ Len(response[r].body.seed_keywords_used) > 10
        /\ response[r].body.total_keywords = 60

====
